---- MODULE Spec2Model ----
(***************************************************************************)
(* SubtitleManager: download_subtitle / clean_folder (SubtitleDownloader), *)
(* get_subtitle_encoding / rename_subtitles / encode_subtitles             *)
(* (SubtitleUtils) and main (Main), modelled over a small file system.     *)
(*                                                                         *)
(* A file name is a sequence of one-character strings, a directory is a    *)
(* sequence of directory names relative to the target directory, a path is *)
(* the pair <<directory, name>>, and a file is [bytes, attr]: bytes is a    *)
(* sequence of 0..255, attr is "ok", "locked" (remove, rename, replace and *)
(* open-for-write raise OSError) or "unreadable" (every open raises).      *)
(***************************************************************************)
EXTENDS Integers, Sequences, FiniteSets, TLC

VARIABLES fs, platform, pc, mainret, dl, rn, en, prev, det
vars == <<fs, platform, pc, mainret, dl, rn, en, prev, det>>

(* ---------------------------- bounds ----------------------------------- *)
MaxFiles == 3
MaxEntries == 2
MaxLen == 3

(* ---------------------------- names ------------------------------------ *)
Srt == <<".", "s", "r", "t">>
Zip == <<".", "z", "i", "p">>
Mp4 == <<".", "m", "p", "4">>
Mkv == <<".", "m", "k", "v">>
Avi == <<".", "a", "v", "i">>
Txt == <<".", "t", "x", "t">>

SubZip == <<"s", "u", "b">> \o Zip

Root == <<>>
Dirs == {<<>>, <<"a">>, <<"a", "b">>, <<"c">>}

Path(d, n) == <<d, n>>
DirOf(p) == p[1]
NameOf(p) == p[2]

\* str.endswith(suffix)
EndsWith(n, suffix) ==
    /\ Len(n) >= Len(suffix)
    /\ SubSeq(n, Len(n) - Len(suffix) + 1, Len(n)) = suffix

IsSrt(n) == EndsWith(n, Srt)
IsSrtOrZip(n) == EndsWith(n, Srt) \/ EndsWith(n, Zip)
IsVideo(n) == EndsWith(n, Mp4) \/ EndsWith(n, Mkv) \/ EndsWith(n, Avi)

\* os.path.splitext(name)[0]: the name up to its last dot; a name without a
\* dot, or whose only dots are leading ones, has no extension
RECURSIVE LastDot(_, _)
LastDot(n, i) ==
    IF i = 0 THEN 0
    ELSE IF n[i] = "." THEN i
    ELSE LastDot(n, i - 1)

RECURSIVE AllDots(_, _)
AllDots(n, i) == IF i = 0 THEN TRUE ELSE n[i] = "." /\ AllDots(n, i - 1)

SplitExtBase(n) ==
    LET k == LastDot(n, Len(n))
    IN  IF k = 0 \/ AllDots(n, k) THEN n ELSE SubSeq(n, 1, k - 1)

\* str(counter) for a positive integer
Digit(k) == CASE k = 0 -> "0" [] k = 1 -> "1" [] k = 2 -> "2" [] k = 3 -> "3"
              [] k = 4 -> "4" [] k = 5 -> "5" [] k = 6 -> "6" [] k = 7 -> "7"
              [] k = 8 -> "8" [] k = 9 -> "9"

RECURSIVE IntToStr(_)
IntToStr(k) == IF k < 10 THEN <<Digit(k)>>
               ELSE IntToStr(k \div 10) \o <<Digit(k % 10)>>

(* ---------------------------- sequences -------------------------------- *)
Range(s) == {s[i] : i \in DOMAIN s}

\* every order of the elements of a set
RECURSIVE Perms(_)
Perms(S) ==
    IF S = {} THEN {<<>>}
    ELSE UNION {{<<x>> \o t : t \in Perms(S \ {x})} : x \in S}

RECURSIVE Flatten(_)
Flatten(ss) == IF ss = <<>> THEN <<>> ELSE Head(ss) \o Flatten(Tail(ss))

(* ---------------------------- file system ------------------------------ *)
Exists(f, p) == p \in DOMAIN f

Without(f, p) == [q \in DOMAIN f \ {p} |-> f[q]]
With(f, p, file) == [q \in DOMAIN f \cup {p} |-> IF q = p THEN file ELSE f[q]]

\* os.remove(p): result [ok, fs]
os_remove(f, p) ==
    IF Exists(f, p) /\ f[p].attr # "locked"
    THEN [ok |-> TRUE, fs |-> Without(f, p)]
    ELSE [ok |-> FALSE, fs |-> f]

\* open(p, 'wb') + write(bytes): an existing file keeps its attributes
write_file(f, p, bytes) ==
    IF Exists(f, p) /\ f[p].attr # "ok"
    THEN [ok |-> FALSE, fs |-> f]
    ELSE [ok |-> TRUE, fs |-> With(f, p, [bytes |-> bytes, attr |-> "ok"])]

\* os.rename(src, dst): POSIX replaces an existing dst silently, Windows
\* raises FileExistsError
os_rename(f, src, dst, plat) ==
    IF ~Exists(f, src) \/ f[src].attr = "locked"
    THEN [ok |-> FALSE, fs |-> f]
    ELSE IF src = dst THEN [ok |-> TRUE, fs |-> f]
    ELSE IF Exists(f, dst) /\ (plat = "nt" \/ f[dst].attr = "locked")
    THEN [ok |-> FALSE, fs |-> f]
    ELSE [ok |-> TRUE, fs |-> With(Without(f, src), dst, f[src])]

(* ---------------------------- os.walk ---------------------------------- *)
SubDirs(d) == {e \in Dirs : Len(e) = Len(d) + 1 /\ SubSeq(e, 1, Len(d)) = d}

\* top-down walk of the directories; rank is the scandir order of all
\* directories (a sequence of Dirs)
RECURSIVE WalkDirs(_, _)
WalkFrom(ds, rank) ==
    LET RECURSIVE Go(_)
        Go(s) == IF s = <<>> THEN <<>>
                 ELSE WalkDirs(Head(s), rank) \o Go(Tail(s))
    IN  Go(ds)
WalkDirs(d, rank) ==
    <<d>> \o WalkFrom(SelectSeq(rank, LAMBDA e : e \in SubDirs(d)), rank)

DirOrders == {WalkDirs(Root, r) : r \in Perms(Dirs)}

\* what os.walk may yield for a set of files over the directories dorder:
\* directory by directory, the files of one directory in any scandir order
RECURSIVE os_walk(_, _)
os_walk(dorder, files) ==
    IF dorder = <<>> THEN {<<>>}
    ELSE {h \o t : h \in Perms({p \in files : DirOf(p) = Head(dorder)}),
                   t \in os_walk(Tail(dorder), files)}

\* the files of a tree by kind
Videos(f) == {p \in DOMAIN f : IsVideo(NameOf(p))}
Subtitles(f) == {p \in DOMAIN f : IsSrt(NameOf(p))}
SubtitlesAndArchives(f) == {p \in DOMAIN f : IsSrtOrZip(NameOf(p))}

\* every order in which os.walk may yield the files of a set
Walks(files) == UNION {os_walk(d, files) : d \in DirOrders}

(* ---------------------------- codecs ----------------------------------- *)
\* the candidate list with a legacy encoding tried first
encodings_legacy_first == <<"windows-1256", "utf-8", "iso-8859-7">>

\* the candidate list of get_subtitle_encoding, in its order
encodings == <<"utf-8", "windows-1256", "iso-8859-7">>

IsCont(b) == b >= 128 /\ b <= 191

\* number of bytes of the UTF-8 sequence a lead byte announces; 0 for a byte
\* that cannot start a sequence (0x80..0xC1, 0xF5..0xFF)
Utf8Need(b) ==
    IF b < 128 THEN 1
    ELSE IF b >= 194 /\ b <= 223 THEN 2
    ELSE IF b >= 224 /\ b <= 239 THEN 3
    ELSE IF b >= 240 /\ b <= 244 THEN 4
    ELSE 0

\* the strict decoder's test of the second byte of a complete sequence
\* (no overlong forms, no surrogates, nothing above U+10FFFF)
Utf8Second(lead, b) ==
    CASE lead = 224 -> b >= 160 /\ b <= 191
      [] lead = 237 -> b >= 128 /\ b <= 159
      [] lead = 240 -> b >= 144 /\ b <= 191
      [] lead = 244 -> b >= 128 /\ b <= 143
      [] OTHER -> IsCont(b)

\* the test of the second byte when the data ends inside the sequence: as
\* Utf8Second, except that the decoder accepts 0xED followed by 0xA0..0xBF
Utf8SecondPartial(lead, b) ==
    IF lead = 237 THEN IsCont(b) ELSE Utf8Second(lead, b)

\* codecs.open(..., encoding='utf-8').readlines(): the StreamReader decodes
\* with final=False, so a sequence cut off by the end of the file is kept
\* in its buffer and raises nothing; any other malformed byte raises
\* UnicodeDecodeError
RECURSIVE Utf8Reads(_, _)
Utf8Reads(b, i) ==
    IF i > Len(b) THEN TRUE
    ELSE LET n == Utf8Need(b[i])
             avail == Len(b) - i + 1
         IN  IF n = 0 THEN FALSE
             ELSE IF n = 1 THEN Utf8Reads(b, i + 1)
             ELSE IF avail >= n
             THEN /\ Utf8Second(b[i], b[i + 1])
                  /\ \A k \in 2..(n - 1) : IsCont(b[i + k])
                  /\ Utf8Reads(b, i + n)
             ELSE /\ avail >= 2 => Utf8SecondPartial(b[i], b[i + 1])
                  /\ \A k \in 2..(avail - 1) : IsCont(b[i + k])

\* bytes.decode('utf-8'): what a complete, final decode accepts
RECURSIVE Utf8Valid(_, _)
Utf8Valid(b, i) ==
    IF i > Len(b) THEN TRUE
    ELSE LET n == Utf8Need(b[i])
         IN  /\ n > 0
             /\ i + n - 1 <= Len(b)
             /\ n > 1 => Utf8Second(b[i], b[i + 1])
             /\ \A k \in 2..(n - 1) : IsCont(b[i + k])
             /\ Utf8Valid(b, i + n)

Cp1256High ==
    <<
       8364, 1662, 8218, 402, 8222, 8230, 8224, 8225, 710, 8240, 1657, 8249,
       338, 1670, 1688, 1672, 1711, 8216, 8217, 8220, 8221, 8226, 8211, 8212,
       1705, 8482, 1681, 8250, 339, 8204, 8205, 1722, 160, 1548, 162, 163,
       164, 165, 166, 167, 168, 169, 1726, 171, 172, 173, 174, 175,
       176, 177, 178, 179, 180, 181, 182, 183, 184, 185, 1563, 187,
       188, 189, 190, 1567, 1729, 1569, 1570, 1571, 1572, 1573, 1574, 1575,
       1576, 1577, 1578, 1579, 1580, 1581, 1582, 1583, 1584, 1585, 1586, 1587,
       1588, 1589, 1590, 215, 1591, 1592, 1593, 1594, 1600, 1601, 1602, 1603,
       224, 1604, 226, 1605, 1606, 1607, 1608, 231, 232, 233, 234, 235,
       1609, 1610, 238, 239, 1611, 1612, 1613, 1614, 244, 1615, 1616, 247,
       1617, 249, 1618, 251, 252, 8206, 8207, 1746
    >>

Iso8859_7High ==
    <<
       128, 129, 130, 131, 132, 133, 134, 135, 136, 137, 138, 139,
       140, 141, 142, 143, 144, 145, 146, 147, 148, 149, 150, 151,
       152, 153, 154, 155, 156, 157, 158, 159, 160, 8216, 8217, 163,
       8364, 8367, 166, 167, 168, 169, 890, 171, 172, 173, -1, 8213,
       176, 177, 178, 179, 900, 901, 902, 183, 904, 905, 906, 187,
       908, 189, 910, 911, 912, 913, 914, 915, 916, 917, 918, 919,
       920, 921, 922, 923, 924, 925, 926, 927, 928, 929, -1, 931,
       932, 933, 934, 935, 936, 937, 938, 939, 940, 941, 942, 943,
       944, 945, 946, 947, 948, 949, 950, 951, 952, 953, 954, 955,
       956, 957, 958, 959, 960, 961, 962, 963, 964, 965, 966, 967,
       968, 969, 970, 971, 972, 973, 974, -1
    >>

\* one byte through a charmap codec: the code point, or -1 where the codec
\* has no character (UnicodeDecodeError)
CharmapDecode(e, b) ==
    IF b < 128 THEN b
    ELSE IF e = "windows-1256" THEN Cp1256High[b - 127]
    ELSE Iso8859_7High[b - 127]

\* does reading the bytes with encoding e raise no UnicodeDecodeError
Decodes(e, b) ==
    IF e = "utf-8" THEN Utf8Reads(b, 1)
    ELSE \A i \in DOMAIN b : CharmapDecode(e, b[i]) >= 0

\* the text (code points) read with a charmap encoding
DecodeText(e, b) == [i \in DOMAIN b |-> CharmapDecode(e, b[i])]

\* one code point below U+10000 written as UTF-8
Utf8EncodeChar(c) ==
    IF c < 128 THEN <<c>>
    ELSE IF c < 2048 THEN <<192 + (c \div 64), 128 + (c % 64)>>
    ELSE <<224 + (c \div 4096), 128 + ((c \div 64) % 64), 128 + (c % 64)>>

Utf8Encode(text) == Flatten([i \in DOMAIN text |-> Utf8EncodeChar(text[i])])

(* ---------------------------- SubtitleUtils ---------------------------- *)
\* the loop over the candidate encodings, from candidate i on: an unreadable
\* file makes every open raise (the except Exception branch), a decoding
\* error moves on to the next candidate
RECURSIVE TryEncodings(_, _, _)
TryEncodings(f, p, i) ==
    IF i > Len(encodings) THEN "not_detected"
    ELSE IF f[p].attr # "unreadable" /\ Decodes(encodings[i], f[p].bytes)
    THEN encodings[i]
    ELSE TryEncodings(f, p, i + 1)

get_subtitle_encoding(f, p) ==
    IF ~Exists(f, p) THEN "not_detected" ELSE TryEncodings(f, p, 1)

\* the first loop of rename_subtitles over the walk: the first video file
\* met, in the first directory of the walk that holds one
FindMovie(walk) ==
    LET v == SelectSeq(walk, LAMBDA p : IsVideo(NameOf(p)))
    IN  IF v = <<>>
        THEN [movie_files_found |-> FALSE, filename_without_ext |-> <<>>,
              file |-> <<>>]
        ELSE [movie_files_found |-> TRUE,
              filename_without_ext |-> SplitExtBase(NameOf(Head(v))),
              file |-> Head(v)]

\* the name given to the subtitle file number counter
NewSubtitleName(ref, srtCounter, counter) ==
    IF srtCounter = 1 THEN ref \o Srt
    ELSE ref \o <<".">> \o IntToStr(counter) \o Srt

\* the counter advanced inside the try block, after os.rename
RenameOne_counter_in_try(f, src, counter, srtCounter, ref, plat) ==
    LET dst == Path(DirOf(src), NewSubtitleName(ref, srtCounter, counter))
        r == os_rename(f, src, dst, plat)
    IN  [fs |-> r.fs, entry |-> [src |-> src, dst |-> dst, ok |-> r.ok],
         counter |-> IF r.ok THEN counter + 1 ELSE counter]

\* the body of the renaming loop for one file: result [fs, entry, counter],
\* counter being the counter after the body (advanced on failure too)
RenameOne(f, src, counter, srtCounter, ref, plat) ==
    LET dst == Path(DirOf(src), NewSubtitleName(ref, srtCounter, counter))
        r == os_rename(f, src, dst, plat)
    IN  [fs |-> r.fs, entry |-> [src |-> src, dst |-> dst, ok |-> r.ok],
         counter |-> counter + 1]

\* the renaming loop over the files still to rename: result [fs, log]
RECURSIVE RenameLoop(_, _, _, _, _, _)
RenameLoop(f, todo, counter, srtCounter, ref, plat) ==
    IF todo = <<>> THEN [fs |-> f, log |-> <<>>]
    ELSE LET one == RenameOne(f, Head(todo), counter, srtCounter, ref, plat)
             rest == RenameLoop(one.fs, Tail(todo), one.counter, srtCounter,
                                ref, plat)
         IN  [fs |-> rest.fs, log |-> <<one.entry>> \o rest.log]

\* the return on movie_files_found = False left out, the names built on an
\* empty reference name
rename_subtitles_without_return(f, walk, plat) ==
    LET m == FindMovie(walk)
        srt_files == SelectSeq(walk, LAMBDA p : IsSrt(NameOf(p)))
        r == RenameLoop(f, srt_files, 1, Len(srt_files),
                        m.filename_without_ext, plat)
    IN  [called |-> TRUE, before |-> f, after |-> r.fs,
         found |-> m.movie_files_found,
         ref |-> m.filename_without_ext, movie |-> m.file,
         srt_files |-> srt_files, log |-> r.log]

\* rename_subtitles(path) on the tree f, walk being the video and subtitle
\* files of the tree in os.walk order
rename_subtitles(f, walk, plat) ==
    LET m == FindMovie(walk)
        srt_files == SelectSeq(walk, LAMBDA p : IsSrt(NameOf(p)))
        r == RenameLoop(f, srt_files, 1, Len(srt_files),
                        m.filename_without_ext, plat)
    IN  IF ~m.movie_files_found
        THEN [called |-> TRUE, before |-> f, after |-> f, found |-> FALSE,
              ref |-> <<>>, movie |-> <<>>, srt_files |-> <<>>, log |-> <<>>]
        ELSE [called |-> TRUE, before |-> f, after |-> r.fs, found |-> TRUE,
              ref |-> m.filename_without_ext, movie |-> m.file,
              srt_files |-> srt_files, log |-> r.log]

\* one subtitle file of encode_subtitles: result [fs, entry]
EncodeOne(f, p) ==
    LET encoding == get_subtitle_encoding(f, p)
        data == DecodeText(encoding, f[p].bytes)
        w == write_file(f, p, Utf8Encode(data))
    IN  IF encoding = "not_detected"
        THEN [fs |-> f, entry |-> [path |-> p, encoding |-> encoding,
                                   status |-> "skipped_not_detected"]]
        ELSE IF encoding = "utf-8"
        THEN [fs |-> f, entry |-> [path |-> p, encoding |-> encoding,
                                   status |-> "skipped_utf8"]]
        ELSE [fs |-> w.fs,
              entry |-> [path |-> p, encoding |-> encoding,
                         status |-> IF w.ok THEN "reencoded" ELSE "error"]]

RECURSIVE EncodeLoop(_, _)
EncodeLoop(f, walk) ==
    IF walk = <<>> THEN [fs |-> f, log |-> <<>>]
    ELSE LET one == EncodeOne(f, Head(walk))
             rest == EncodeLoop(one.fs, Tail(walk))
         IN  [fs |-> rest.fs, log |-> <<one.entry>> \o rest.log]

\* encode_subtitles(path) on the tree f, walk being the subtitle files of
\* the tree in os.walk order
encode_subtitles(f, walk) ==
    LET r == EncodeLoop(f, walk)
    IN  [called |-> TRUE, before |-> f, after |-> r.fs, walk |-> walk,
         log |-> r.log]

(* ---------------------------- SubtitleDownloader ----------------------- *)
zip_file_path == Path(Root, SubZip)

\* clean_folder(path), walk being the .srt and .zip files of the tree in
\* os.walk order: result [fs, errors], errors the files whose deletion
\* raised OSError
RECURSIVE clean_folder(_, _)
clean_folder(f, walk) ==
    IF walk = <<>> THEN [fs |-> f, errors |-> {}]
    ELSE LET r == os_remove(f, Head(walk))
             rest == clean_folder(r.fs, Tail(walk))
         IN  [fs |-> rest.fs,
              errors |-> (IF r.ok THEN {} ELSE {Head(walk)}) \cup rest.errors]

\* ZipFile.extractall(path): the entries are written in archive order, the
\* first one that cannot be written raises and ends the extraction
RECURSIVE extractall(_, _)
extractall(f, entries) ==
    IF entries = <<>> THEN [ok |-> TRUE, fs |-> f]
    ELSE LET w == write_file(f, Head(entries).path, Head(entries).bytes)
         IN  IF ~w.ok THEN [ok |-> FALSE, fs |-> f]
             ELSE extractall(w.fs, Tail(entries))

\* the try block of download_subtitle: result [status, fs]
WriteAndExtract(f, resp) ==
    LET w == write_file(f, zip_file_path, resp.content)
        e == extractall(w.fs, resp.entries)
    IN  IF ~w.ok THEN [status |-> "error", fs |-> f]
        ELSE IF ~resp.zip THEN [status |-> "bad_zip", fs |-> w.fs]
        ELSE [status |-> IF e.ok THEN "extracted" ELSE "error", fs |-> e.fs]

\* the removal left out of the paths that raised
RemoveTemporary_only_on_success(f) ==
    [removal |-> "absent", fs |-> f]

\* the finally block of download_subtitle: result [removal, fs]
RemoveTemporary(f) ==
    LET r == os_remove(f, zip_file_path)
    IN  IF ~Exists(f, zip_file_path) THEN [removal |-> "absent", fs |-> f]
        ELSE [removal |-> IF r.ok THEN "removed" ELSE "error", fs |-> r.fs]

\* the pre-clean moved after the download
download_subtitle_clean_after_get(f, walk, resp) ==
    LET c == clean_folder(f, walk)
        x == WriteAndExtract(c.fs, resp)
        t == RemoveTemporary(x.fs)
    IN  IF ~resp.ok
        THEN [called |-> TRUE, before |-> f, after |-> f, resp |-> resp,
              clean_errors |-> {}, status |-> "download_error",
              removal |-> "not_reached"]
        ELSE [called |-> TRUE, before |-> f, after |-> t.fs, resp |-> resp,
              clean_errors |-> c.errors, status |-> x.status,
              removal |-> t.removal]

\* download_subtitle(url, path) on the tree f; resp is what requests.get
\* gives: ok (no RequestException), content, and what zipfile finds in the
\* content (zip: a valid archive, entries: its members in order)
download_subtitle(f, walk, resp) ==
    LET c == clean_folder(f, walk)
        x == WriteAndExtract(c.fs, resp)
        t == RemoveTemporary(x.fs)
    IN  IF ~resp.ok
        THEN [called |-> TRUE, before |-> f, after |-> c.fs, resp |-> resp,
              clean_errors |-> c.errors, status |-> "download_error",
              removal |-> "not_reached"]
        ELSE [called |-> TRUE, before |-> f, after |-> t.fs, resp |-> resp,
              clean_errors |-> c.errors, status |-> x.status,
              removal |-> t.removal]

(* ---------------------------- inputs ----------------------------------- *)
\* the files a tree may hold before a run of main, with their bytes
InitialBytes ==
    (Path(Root, <<"M">> \o Mkv) :> <<0, 1>>) @@
    (Path(<<"a", "b">>, <<"N">> \o Mp4) :> <<0, 2>>) @@
    (Path(<<"c">>, <<"K">> \o Avi) :> <<0, 3>>) @@
    (Path(Root, <<"x">> \o Srt) :> <<199, 65>>) @@
    (Path(<<"a">>, <<"y">> \o Srt) :> <<216, 167>>) @@
    (Path(Root, SubZip) :> <<80, 75>>) @@
    (Path(Root, <<"n">> \o Txt) :> <<110>>)

Trees ==
    UNION {{[p \in S |-> [bytes |-> InitialBytes[p], attr |-> a[p]]] :
                a \in [S -> {"ok", "locked"}]} :
           S \in {T \in SUBSET DOMAIN InitialBytes : Cardinality(T) <= MaxFiles}}

\* the members an archive may hold
Members ==
    {[path |-> Path(Root, <<"s">> \o Srt), bytes |-> <<199, 66>>],
     [path |-> Path(Root, <<"M", ".", "1">> \o Srt), bytes |-> <<216, 168>>],
     [path |-> Path(<<"a">>, <<"t">> \o Srt), bytes |-> <<255>>],
     [path |-> Path(Root, <<"M">> \o Mkv), bytes |-> <<0, 9>>]}

Archives == UNION {[1..k -> Members] : k \in 0..MaxEntries}

\* what requests.get may give: a RequestException, an empty body, a body
\* that is no archive, an archive
Responses ==
    {[ok |-> FALSE, content |-> <<>>, zip |-> FALSE, entries |-> <<>>],
     [ok |-> TRUE, content |-> <<>>, zip |-> FALSE, entries |-> <<>>],
     [ok |-> TRUE, content |-> <<80, 75>>, zip |-> FALSE, entries |-> <<>>]}
    \cup {[ok |-> TRUE, content |-> <<80, 75>>, zip |-> TRUE, entries |-> e] :
             e \in Archives}

\* the trees of the codec specification: one subtitle file with any bytes
\* over CodecBytes up to MaxLen, a second one and a text file beside it
CodecBytes == {65, 167, 199, 226, 255}
ByteSeqs == UNION {[1..k -> CodecBytes] : k \in 0..MaxLen}
CodecX == Path(Root, <<"x">> \o Srt)
CodecY == Path(<<"a">>, <<"y">> \o Srt)
CodecN == Path(Root, <<"n">> \o Txt)
CodecMissing == Path(Root, <<"z">> \o Srt)

CodecTrees ==
    {[p \in {CodecX} \cup S |->
          IF p = CodecX THEN [bytes |-> b, attr |-> a]
          ELSE IF p = CodecY THEN [bytes |-> <<199, 65>>, attr |-> ay]
          ELSE [bytes |-> <<255>>, attr |-> "ok"]] :
        b \in ByteSeqs, a \in {"ok", "locked", "unreadable"},
        ay \in {"ok", "locked"}, S \in SUBSET {CodecY, CodecN}}

(* ---------------------------- state ------------------------------------ *)
NoResponse == [ok |-> FALSE, content |-> <<>>, zip |-> FALSE, entries |-> <<>>]
NoDownload ==
    [called |-> FALSE, before |-> <<>>, after |-> <<>>, resp |-> NoResponse,
     clean_errors |-> {}, status |-> "", removal |-> ""]
NoRename ==
    [called |-> FALSE, before |-> <<>>, after |-> <<>>, found |-> FALSE,
     ref |-> <<>>, movie |-> <<>>, srt_files |-> <<>>, log |-> <<>>]
NoEncode ==
    [called |-> FALSE, before |-> <<>>, after |-> <<>>, walk |-> <<>>,
     log |-> <<>>]
NoDetect == [called |-> FALSE, path |-> <<>>, ret |-> "", before |-> <<>>,
             after |-> <<>>]

\* main is about to ask for its inputs
Init ==
    /\ fs \in Trees
    /\ platform \in {"posix", "nt"}
    /\ pc = "input"
    /\ mainret = ""
    /\ dl = NoDownload
    /\ rn = NoRename
    /\ en = NoEncode
    /\ prev = NoEncode
    /\ det = NoDetect

\* a caller of SubtitleUtils on a tree of subtitle files
InitCodec ==
    /\ fs \in CodecTrees
    /\ platform = "posix"
    /\ pc = "lib"
    /\ mainret = ""
    /\ dl = NoDownload
    /\ rn = NoRename
    /\ en = NoEncode
    /\ prev = NoEncode
    /\ det = NoDetect

(* ---------------------------- main ------------------------------------- *)
\* main, lines 24-27: an empty directory ends the run
EmptyPath ==
    /\ pc = "input"
    /\ pc' = "done"
    /\ mainret' = "empty_path"
    /\ UNCHANGED <<fs, platform, dl, rn, en, prev, det>>

\* main, lines 29-32: an empty url ends the run
EmptyUrl ==
    /\ pc = "input"
    /\ pc' = "done"
    /\ mainret' = "empty_url"
    /\ UNCHANGED <<fs, platform, dl, rn, en, prev, det>>

\* main, lines 24-34: both inputs given
Inputs ==
    /\ pc = "input"
    /\ pc' = "download"
    /\ UNCHANGED <<fs, platform, mainret, dl, rn, en, prev, det>>

\* main, line 38
Download ==
    /\ pc = "download"
    /\ \E resp \in Responses, walk \in Walks(SubtitlesAndArchives(fs)) :
          /\ dl' = download_subtitle(fs, walk, resp)
          /\ fs' = dl'.after
    /\ pc' = "rename"
    /\ UNCHANGED <<platform, mainret, rn, en, prev, det>>

\* main, line 42
Rename ==
    /\ pc = "rename"
    /\ \E walk \in Walks(Videos(fs) \cup Subtitles(fs)) :
          /\ rn' = rename_subtitles(fs, walk, platform)
          /\ fs' = rn'.after
    /\ pc' = "encode"
    /\ UNCHANGED <<platform, mainret, dl, en, prev, det>>

\* main, lines 46-48
Encode ==
    /\ pc = "encode"
    /\ \E walk \in Walks(Subtitles(fs)) :
          /\ en' = encode_subtitles(fs, walk)
          /\ fs' = en'.after
    /\ prev' = en
    /\ pc' = "done"
    /\ mainret' = "completed"
    /\ UNCHANGED <<platform, dl, rn, det>>

Next == EmptyPath \/ EmptyUrl \/ Inputs \/ Download \/ Rename \/ Encode

Spec == Init /\ [][Next]_vars

(* ---------------------------- calls of SubtitleUtils ------------------- *)
\* get_subtitle_encoding(p), for a file of the tree or a path that is not
\* there
CallDetect ==
    /\ pc = "lib"
    /\ \E p \in DOMAIN fs \cup {CodecMissing} :
          det' = [called |-> TRUE, path |-> p,
                  ret |-> get_subtitle_encoding(fs, p),
                  before |-> fs, after |-> fs]
    /\ UNCHANGED <<fs, platform, pc, mainret, dl, rn, en, prev>>

\* encode_subtitles(path)
CallEncode ==
    /\ pc = "lib"
    /\ \E walk \in Walks(Subtitles(fs)) :
          /\ en' = encode_subtitles(fs, walk)
          /\ fs' = en'.after
    /\ prev' = en
    /\ UNCHANGED <<platform, pc, mainret, dl, rn, det>>

NextCodec == CallDetect \/ CallEncode

SpecCodec == InitCodec /\ [][NextCodec]_vars

(* ---------------------------- download_subtitle ------------------------ *)
\* C1 as stated: after every call of download_subtitle whose download
\* succeeded there is no file sub.zip in the target directory
C1_NoTemporaryArchive ==
    (dl.called /\ dl.resp.ok) => ~Exists(dl.after, zip_file_path)

\* C1 amended: after every call of download_subtitle whose download
\* succeeded, whatever the outcome of writing and extracting, sub.zip is in
\* the target directory only if its removal in the finally block raised
\* OSError, which the call reports
C1_TemporaryArchiveRemoved ==
    (dl.called /\ dl.resp.ok) =>
        /\ Exists(dl.after, zip_file_path) => dl.removal = "error"
        /\ dl.removal = "removed" => ~Exists(dl.after, zip_file_path)
        /\ dl.removal \in {"absent", "removed", "error"}

\* C1 witness: an extraction that raised, after which the archive written was removed
C1_Witness ==
    /\ dl.called /\ dl.resp.ok
    /\ dl.status = "error"
    /\ dl.removal = "removed"
    /\ ~Exists(dl.before, zip_file_path)

\* C2 as stated: after a call of download_subtitle whose download failed
\* the tree holds no sub.zip and no .srt or .zip file that was there before
C2_CleanAfterFailedDownload ==
    (dl.called /\ ~dl.resp.ok) =>
        /\ ~Exists(dl.after, zip_file_path)
        /\ \A p \in DOMAIN dl.before :
              IsSrtOrZip(NameOf(p)) => ~Exists(dl.after, p)

\* C2 amended: after a call of download_subtitle whose download failed the
\* only .srt and .zip files of the tree (sub.zip included) are files that
\* were there before and whose deletion raised OSError, reported by
\* clean_folder; every other file is as it was and nothing was written
C2_CleanedExceptDeletionErrors ==
    (dl.called /\ ~dl.resp.ok) =>
        /\ \A p \in DOMAIN dl.after :
              IsSrtOrZip(NameOf(p)) => p \in dl.clean_errors
        /\ dl.clean_errors \subseteq DOMAIN dl.before
        /\ \A p \in DOMAIN dl.before :
              IsSrtOrZip(NameOf(p)) /\ p \notin dl.clean_errors
                  => ~Exists(dl.after, p)
        /\ \A p \in DOMAIN dl.after :
              Exists(dl.before, p) /\ dl.after[p] = dl.before[p]
        /\ \A p \in DOMAIN dl.before :
              ~IsSrtOrZip(NameOf(p)) => Exists(dl.after, p)

\* C2 witness: a failed download after which a subtitle file and sub.zip left by an
\* earlier run are gone
C2_Witness ==
    /\ dl.called /\ ~dl.resp.ok
    /\ Exists(dl.before, zip_file_path)
    /\ ~Exists(dl.after, zip_file_path)
    /\ \E p \in DOMAIN dl.before : IsSrt(NameOf(p)) /\ ~Exists(dl.after, p)

\* C9: download_subtitle leaves every file whose name ends in neither .srt
\* nor .zip at its path with its bytes, for every archive
C9_OtherFilesUntouched ==
    dl.called =>
        \A p \in DOMAIN dl.before :
            ~IsSrtOrZip(NameOf(p)) =>
                Exists(dl.after, p) /\ dl.after[p].bytes = dl.before[p].bytes

(* ---------------------------- rename_subtitles ------------------------- *)
Depth(p) == Len(DirOf(p))
SubtitlesIn(f, d) == {p \in Subtitles(f) : DirOf(p) = d}

\* C3: the video file whose name rename_subtitles takes has minimal depth
\* among the video files of the tree
C3_NearestVideoFirst ==
    (rn.called /\ rn.found) =>
        \A p \in Videos(rn.before) : Depth(rn.movie) <= Depth(p)

\* C4: with a reference name R, k >= 1 subtitle files discovered and no
\* rename reporting an error, the bytes of the i-th discovered file are in
\* its directory under R.srt (k = 1) or R.i.srt (k > 1)
C4_RenamedByDiscoveryOrder ==
    (/\ rn.called /\ rn.found
     /\ Len(rn.srt_files) >= 1
     /\ \A i \in DOMAIN rn.log : rn.log[i].ok) =>
        \A i \in DOMAIN rn.srt_files :
            LET src == rn.srt_files[i]
                dst == Path(DirOf(src),
                            NewSubtitleName(rn.ref, Len(rn.srt_files), i))
            IN  /\ Exists(rn.after, dst)
                /\ rn.after[dst].bytes = rn.before[src].bytes

\* C10: rename_subtitles leaves in every directory as many subtitle files
\* as it found there
C10_NoSubtitleLost ==
    rn.called =>
        \A d \in Dirs :
            Cardinality(SubtitlesIn(rn.after, d))
                = Cardinality(SubtitlesIn(rn.before, d))

\* C7: a failure on one subtitle file stops neither loop.  rename_subtitles
\* attempts every discovered file once, in discovery order, under the
\* number of its own position, and renames every file that is not locked
\* and whose new name is free, whatever happened to the others;
\* encode_subtitles handles every subtitle file once, re-encodes every
\* writable file detected as a legacy encoding, and leaves the others as
\* they were
C7_PerFileIsolation ==
    /\ (rn.called /\ rn.found) =>
          LET k == Len(rn.srt_files)
          IN  /\ Range(rn.srt_files) = Subtitles(rn.before)
              /\ Len(rn.log) = k
              /\ \A i \in 1..k :
                    LET src == rn.srt_files[i]
                        dst == Path(DirOf(src),
                                    NewSubtitleName(rn.ref, k, i))
                    IN  /\ rn.log[i].src = src
                        /\ rn.log[i].dst = dst
                        /\ (rn.before[src].attr # "locked"
                            /\ ~Exists(rn.before, dst))
                              => rn.log[i].ok /\ Exists(rn.after, dst)
    /\ en.called =>
          /\ Range(en.walk) = Subtitles(en.before)
          /\ Len(en.log) = Len(en.walk)
          /\ \A i \in DOMAIN en.walk :
                LET p == en.walk[i]
                    enc == get_subtitle_encoding(en.before, p)
                IN  /\ en.log[i].path = p
                    /\ (enc \notin {"utf-8", "not_detected"}
                        /\ en.before[p].attr = "ok")
                          => /\ en.log[i].status = "reencoded"
                             /\ en.after[p].bytes =
                                  Utf8Encode(DecodeText(enc,
                                                        en.before[p].bytes))
                    /\ en.log[i].status # "reencoded"
                          => en.after[p] = en.before[p]

\* C7 witness: a run in which a rename failed and a later file was renamed, and a
\* re-encoding failed and a later file was re-encoded
C7_Witness ==
    /\ pc = "done" /\ rn.called /\ en.called
    /\ \E i, j \in DOMAIN rn.log :
          i < j /\ ~rn.log[i].ok /\ rn.log[j].ok
          /\ rn.log[j].dst =
               Path(DirOf(rn.log[j].src),
                    rn.ref \o <<".">> \o IntToStr(j) \o Srt)
    /\ \E i, j \in DOMAIN en.log :
          i < j /\ en.log[i].status = "error"
          /\ en.log[j].status = "reencoded"

(* ---------------------------- main ------------------------------------- *)
\* C8: in a run of main on a tree without video file rename_subtitles
\* renames nothing, encode_subtitles then runs over every subtitle file
\* and main returns normally
C8_NoVideoNoRename ==
    (rn.called /\ Videos(rn.before) = {}) =>
        /\ ~rn.found
        /\ rn.log = <<>>
        /\ rn.after = rn.before
        /\ pc \in {"encode", "done"}
        /\ pc = "done" =>
              /\ en.called
              /\ en.before = rn.after
              /\ Range(en.walk) = Subtitles(rn.before)
              /\ Len(en.log) = Len(en.walk)
              /\ \A i \in DOMAIN en.log : en.log[i].path = en.walk[i]
              /\ mainret = "completed"

\* C8 witness: main has returned from a run on a tree that held subtitle files and no
\* video file
C8_Witness ==
    /\ pc = "done" /\ rn.called /\ en.called
    /\ Videos(rn.before) = {}
    /\ Cardinality(Subtitles(rn.before)) >= 2
    /\ \E i \in DOMAIN en.log : en.log[i].status = "reencoded"

(* ---------------------------- codecs ----------------------------------- *)
\* a complete decode of the bytes with the encoding raises no error
DecodesWhole(e, b) ==
    IF e = "utf-8" THEN Utf8Valid(b, 1)
    ELSE \A i \in DOMAIN b : CharmapDecode(e, b[i]) >= 0

\* C5: get_subtitle_encoding returns utf-8 for a file that decodes as
\* UTF-8, windows-1256 for a file that is invalid UTF-8 and valid
\* windows-1256, not_detected exactly for a missing file or one no
\* candidate decodes, and leaves the file alone
C5_FirstDecodingCandidate ==
    det.called =>
        LET f == det.before
            p == det.path
            readable == Exists(f, p) /\ f[p].attr # "unreadable"
        IN  /\ (readable /\ DecodesWhole("utf-8", f[p].bytes))
                  => det.ret = "utf-8"
            /\ (readable /\ ~DecodesWhole("utf-8", f[p].bytes)
                /\ DecodesWhole("windows-1256", f[p].bytes))
                  => det.ret = "windows-1256"
            /\ det.ret = "not_detected" <=>
                  (~readable \/ \A i \in DOMAIN encodings :
                                   ~DecodesWhole(encodings[i], f[p].bytes))
            /\ det.after = det.before
            /\ fs = det.after

\* the entry of a log for a path
EntryOf(log, p) == log[CHOOSE i \in DOMAIN log : log[i].path = p]

\* C6: a second run of encode_subtitles leaves every subtitle file with
\* the bytes it had after the first: the files the first run rewrote are
\* detected as utf-8 and skipped, the files it skipped are skipped again
C6_EncodeIdempotent ==
    (en.called /\ prev.called) =>
        /\ en.before = prev.after
        /\ \A p \in Subtitles(prev.after) :
              Exists(en.after, p) /\ en.after[p].bytes = prev.after[p].bytes
        /\ Subtitles(en.after) = Subtitles(prev.after)
        /\ \A i \in DOMAIN prev.log :
              LET e1 == prev.log[i]
                  e2 == EntryOf(en.log, e1.path)
              IN  /\ e1.status = "reencoded" =>
                        e2.encoding = "utf-8" /\ e2.status = "skipped_utf8"
                  /\ e1.status \in {"skipped_utf8", "skipped_not_detected"}
                        => e2.status = e1.status

\* C6 witness: two runs, the first of which rewrote one file and skipped another
C6_Witness ==
    /\ en.called /\ prev.called
    /\ \E i, j \in DOMAIN prev.log :
          /\ prev.log[i].status = "reencoded"
          /\ prev.after[prev.log[i].path].bytes
               # prev.before[prev.log[i].path].bytes
          /\ prev.log[j].status = "skipped_utf8"

====
